---- MODULE Spec2Model ----
(***************************************************************************)
(* Shopping AI Assistant API (src/main.py): the REST handlers over the six *)
(* collections chatsession, message, product, pricehistory, wishlist and   *)
(* cart, and the chat recommendation heuristic.                            *)
(*                                                                         *)
(* Strings that the code inspects (queries, product text, id strings) are  *)
(* sequences of one-character strings.  Prices are in cents, ratings in    *)
(* tenths, datetimes are integers.  An ObjectId is a natural number; its   *)
(* string form is its fixed-width lowercase hexadecimal encoding.          *)
(***************************************************************************)
EXTENDS Integers, Sequences, FiniteSets, TLC

VARIABLES db, chatsession, message, product, pricehistory, wishlist, cart, resp

vars == <<db, chatsession, message, product, pricehistory, wishlist, cart, resp>>

(***************************************************************************)
(* Bounds of the model.                                                    *)
(***************************************************************************)
NumSeed == 9
HistDays == 2
MaxSessions == 1
MaxMessages == 3
MaxWishlist == 2
MaxCart == 1
MaxQueryLen == 7

(***************************************************************************)
(* Constants of the program.                                               *)
(***************************************************************************)
BudgetMinDigits == 2
BudgetMaxDigits == 5
ChatSearchLimit == 8
ChatFallbackLimit == 5
ChatRecLimit == 3
OidHexLen == 2

None == "None"

Min(a, b) == IF a < b THEN a ELSE b

Range(s) == {s[i] : i \in 1..Len(s)}

(***************************************************************************)
(* Character helpers.                                                      *)
(***************************************************************************)
Digits == <<"0", "1", "2", "3", "4", "5", "6", "7", "8", "9">>
HexLower == <<"0", "1", "2", "3", "4", "5", "6", "7", "8", "9", "a", "b", "c", "d", "e", "f">>
HexUpper == <<"0", "1", "2", "3", "4", "5", "6", "7", "8", "9", "A", "B", "C", "D", "E", "F">>
DigitSet == Range(Digits)
HexSet == Range(HexLower) \cup Range(HexUpper)

IsDigit(c) == c \in DigitSet

DigitVal(c) == (CHOOSE i \in 1..10 : Digits[i] = c) - 1

\* case folding of the "i" option, over the letters that occur in product text
Lower(c) ==
    CASE c = "H" -> "h"
      [] c = "L" -> "l"
      [] c = "P" -> "p"
      [] c = "M" -> "m"
      [] OTHER -> c

IsHex(c) == c \in HexSet

HexVal(c) == (CHOOSE i \in 1..16 : HexLower[i] = c \/ HexUpper[i] = c) - 1

RECURSIVE Pow(_, _)
Pow(b, n) == IF n = 0 THEN 1 ELSE b * Pow(b, n - 1)

\* decimal rendering of a natural number, as an f-string renders it
RECURSIVE Dec(_)
Dec(n) == IF n < 10 THEN <<Digits[n + 1]>> ELSE Dec(n \div 10) \o <<Digits[(n % 10) + 1]>>

(***************************************************************************)
(* ObjectId: construction from a string, and str().  An ObjectId string has *)
(* 24 hexadecimal digits; the model writes ObjectIds with OidHexLen digits. *)
(***************************************************************************)
IsValidOid(s) == Len(s) = OidHexLen /\ \A i \in 1..Len(s) : IsHex(s[i])

RECURSIVE HexParse(_)
HexParse(s) == IF s = <<>> THEN 0 ELSE 16 * HexParse(SubSeq(s, 1, Len(s) - 1)) + HexVal(s[Len(s)])

\* ObjectId(s); only applied when IsValidOid(s), otherwise the constructor raises InvalidId
ObjectId(s) == HexParse(s)

\* str(ObjectId)
OidStr(n) == [i \in 1..OidHexLen |-> HexLower[((n \div Pow(16, OidHexLen - i)) % 16) + 1]]

(***************************************************************************)
(* Budget extraction of chat: re.search(r"\$(\d{2,5})", query.replace(",", *)
(* "")) and float(m.group(1)).                                             *)
(***************************************************************************)
NoBudget == -1

\* query.replace(",", "")
StripCommas(s) == SelectSeq(s, LAMBDA c : c # ",")

\* the number of digits that \d{2,5} consumes greedily from position i on
RECURSIVE DigitRun(_, _, _)
DigitRun(s, i, max) ==
    IF max = 0 \/ i > Len(s) \/ ~IsDigit(s[i]) THEN 0 ELSE 1 + DigitRun(s, i + 1, max - 1)

\* re.search: the leftmost position where the pattern matches; group(1) or <<>>
RECURSIVE ReSearchBudget(_, _)
ReSearchBudget(s, i) ==
    IF i > Len(s) THEN <<>>
    ELSE LET n == DigitRun(s, i + 1, BudgetMaxDigits)
         IN  IF s[i] = "$" /\ n >= BudgetMinDigits
             THEN SubSeq(s, i + 1, i + n)
             ELSE ReSearchBudget(s, i + 1)

\* float(m.group(1)) of a digit string
RECURSIVE DecParse(_)
DecParse(s) == IF s = <<>> THEN 0 ELSE 10 * DecParse(SubSeq(s, 1, Len(s) - 1)) + DigitVal(s[Len(s)])

ParseBudget(query) ==
    LET m == ReSearchBudget(StripCommas(query), 1)
    IN  IF m # <<>> THEN DecParse(m) ELSE NoBudget

\* Python truthiness of budget in "if budget:" -- None and 0.0 are both false
BudgetTruthy(budget) == budget # NoBudget /\ budget # 0

(***************************************************************************)
(* {"$regex": q, "$options": "i"}: q is the regular expression itself.     *)
(* Over the characters used here every character is a literal except "$",  *)
(* which asserts the end of the text.                                      *)
(***************************************************************************)
RECURSIVE RegexMatchAt(_, _, _, _)
RegexMatchAt(q, k, text, pos) ==
    IF k > Len(q) THEN TRUE
    ELSE IF q[k] = "$" THEN pos = Len(text) /\ RegexMatchAt(q, k + 1, text, pos)
    ELSE pos < Len(text) /\ Lower(text[pos + 1]) = Lower(q[k])
         /\ RegexMatchAt(q, k + 1, text, pos + 1)

RegexFind(q, text) == \E pos \in 0..Len(text) : RegexMatchAt(q, 1, text, pos)

\* the $or filter over title, description and category
TextFilter(q, p) ==
    RegexFind(q, p.title) \/ RegexFind(q, p.description) \/ RegexFind(q, p.category)

(***************************************************************************)
(* Cursor operations of the document store.                                *)
(***************************************************************************)
\* cursor.limit(n) for n >= 0: 0 means no limit
CursorLimit(s, n) == IF n = 0 THEN s ELSE SubSeq(s, 1, Min(Len(s), n))

\* insert x into the sorted sequence s, after every element that does not come after it
RECURSIVE InsertSorted(_, _, _, _)
InsertSorted(s, x, key, dir) ==
    IF s = <<>> THEN <<x>>
    ELSE IF dir * x[key] < dir * s[1][key] THEN <<x>> \o s
    ELSE <<s[1]>> \o InsertSorted(Tail(s), x, key, dir)

\* cursor.sort(key, dir); equal keys keep the collection's order
RECURSIVE SortBy(_, _, _)
SortBy(s, key, dir) ==
    IF s = <<>> THEN <<>>
    ELSE InsertSorted(SortBy(SubSeq(s, 1, Len(s) - 1), key, dir), s[Len(s)], key, dir)

\* variant: the slice is one too long
SliceOneMore(s, n) == SubSeq(s, 1, Min(Len(s), n + 1))

\* s[:n] for n >= 0
Slice(s, n) == SubSeq(s, 1, Min(Len(s), n))

(***************************************************************************)
(* seed_products: the random draws of one product are a category, a price  *)
(* and a rating.                                                           *)
(***************************************************************************)
\* outcomes of the draws of one product: a well rated cheap H, a well rated expensive L
\* and a lower rated cheap L
SeedChoices ==
    {[cat |-> "H", price |-> 5000, rating |-> 49],
     [cat |-> "L", price |-> 50000, rating |-> 49],
     [cat |-> "L", price |-> 5000, rating |-> 40]}

\* the _id the store gives the i-th inserted product
ProductOid(i) == 16 + i

SeedProduct(i, c) ==
    [_id |-> ProductOid(i),
     title |-> <<"P">> \o Dec(i) \o <<c.cat>>,
     description |-> <<"M", Lower(c.cat)>>,
     price |-> c.price,
     category |-> <<c.cat>>,
     rating |-> c.rating,
     created_at |-> 0]

SeedProducts(draws) == [i \in 1..NumSeed |-> SeedProduct(i, draws[i])]

\* the price history seeded for product p: one entry per day
SeedHistory(p) ==
    [product_id |-> p._id,
     history |-> [d \in 1..HistDays |-> [date |-> d, price |-> p.price]]]

SeedPriceHistory(products) == [i \in 1..Len(products) |-> SeedHistory(products[i])]

\* the _id the store gives the i-th inserted session and message
SessionOid(i) == 64 + i
MessageOid(i) == 128 + i

\* to_public: the key _id is replaced by the key id, the string form of the ObjectId
ToPublic(doc) ==
    [k \in (DOMAIN doc \ {"_id"}) \cup {"id"} |-> IF k = "id" THEN OidStr(doc._id) ELSE doc[k]]

ToPublicAll(docs) == [i \in 1..Len(docs) |-> ToPublic(docs[i])]

(***************************************************************************)
(* Responses.  resp is the outcome of the last request: the handler, its   *)
(* arguments, the status and body the client gets and, for chat, the       *)
(* handler's local variables.  An HTTPException(500) and an uncaught       *)
(* exception both reach the client as status 500; a request that fails     *)
(* validation is answered 422 before the handler runs.                     *)
(***************************************************************************)
Ok(op, args, body) ==
    [op |-> op, args |-> args, status |-> 200, error |-> "none", body |-> body, locals |-> <<>>]

Fail(op, args, status, error) ==
    [op |-> op, args |-> args, status |-> status, error |-> error, body |-> <<>>, locals |-> <<>>]

DbNotConfigured(op, args) == Fail(op, args, 500, "Database not configured")

(***************************************************************************)
(* Basic                                                                   *)
(***************************************************************************)
Root ==
    /\ resp' = Ok("root", <<>>, <<"Shopping AI Assistant API">>)
    /\ UNCHANGED <<db, chatsession, message, product, pricehistory, wishlist, cart>>

TestDatabase ==
    /\ resp' = Ok("test_database", <<>>, <<IF db THEN "Connected" ELSE "Not Available">>)
    /\ UNCHANGED <<db, chatsession, message, product, pricehistory, wishlist, cart>>

(***************************************************************************)
(* Sessions & Messages                                                     *)
(***************************************************************************)
CreateSession(title, now) ==
    /\ Len(chatsession) < MaxSessions
    /\ IF ~db
       THEN /\ resp' = DbNotConfigured("create_session", <<title>>)
            /\ UNCHANGED chatsession
       ELSE LET doc == [title |-> title, created_at |-> now]
                _id == SessionOid(Len(chatsession) + 1)
            IN  /\ chatsession' = Append(chatsession, [_id |-> _id] @@ doc)
                /\ resp' = Ok("create_session", <<title>>, [id |-> OidStr(_id)] @@ doc)
    /\ UNCHANGED <<db, message, product, pricehistory, wishlist, cart>>

ListSessionsBody(limit) ==
    IF ~db THEN <<>>
    ELSE ToPublicAll(CursorLimit(SortBy(chatsession, "created_at", -1), limit))

ListSessions(limit) ==
    /\ resp' = Ok("list_sessions", <<limit>>, ListSessionsBody(limit))
    /\ UNCHANGED <<db, chatsession, message, product, pricehistory, wishlist, cart>>

RecentSessions(limit) ==
    /\ resp' = Ok("recent_sessions", <<limit>>, ListSessionsBody(limit))
    /\ UNCHANGED <<db, chatsession, message, product, pricehistory, wishlist, cart>>

\* variant: the sort is left out
GetMessagesBodyUnsorted(session_id) ==
    IF ~db THEN <<>>
    ELSE ToPublicAll(SelectSeq(message, LAMBDA m : m.session_id = session_id))

GetMessagesBody(session_id) ==
    IF ~db THEN <<>>
    ELSE ToPublicAll(SortBy(SelectSeq(message, LAMBDA m : m.session_id = session_id),
                            "created_at", 1))

GetMessages(session_id) ==
    /\ resp' = Ok("get_messages", <<session_id>>, GetMessagesBody(session_id))
    /\ UNCHANGED <<db, chatsession, message, product, pricehistory, wishlist, cart>>

\* variant: the role is not validated
RoleValidAny(role) == TRUE

\* MessageIn.role: Field(..., pattern="^(user|assistant)$")
RoleValid(role) == role \in {"user", "assistant"}

\* msg.meta or {}: meta is <<>> for None and <<dict>> otherwise
MetaOrEmpty(meta) == IF meta = <<>> \/ DOMAIN meta[1] = {} THEN [k \in {} |-> 0] ELSE meta[1]

PostMessage(session_id, role, content, meta, now) ==
    /\ Len(message) < MaxMessages
    /\ IF ~RoleValid(role)
       THEN /\ resp' = Fail("post_message", <<session_id, role>>, 422, "validation")
            /\ UNCHANGED message
       ELSE IF ~db
       THEN /\ resp' = DbNotConfigured("post_message", <<session_id, role>>)
            /\ UNCHANGED message
       ELSE LET doc == [session_id |-> session_id, role |-> role, content |-> content,
                        meta |-> MetaOrEmpty(meta), created_at |-> now]
            IN  /\ message' = Append(message, [_id |-> MessageOid(Len(message) + 1)] @@ doc)
                /\ resp' = Ok("post_message", <<session_id, role>>, <<"ok">>)
    /\ UNCHANGED <<db, chatsession, product, pricehistory, wishlist, cart>>

(***************************************************************************)
(* Products & Discovery                                                    *)
(***************************************************************************)
\* variant: the empty query is sent as a regular expression that matches "h" only
SearchProductsBodyKeyword(q, limit) ==
    IF ~db THEN <<>>
    ELSE LET pattern == IF q # <<>> THEN q ELSE <<"h">>
         IN  ToPublicAll(CursorLimit(SelectSeq(product, LAMBDA p : TextFilter(pattern, p)), limit))

SearchProductsBody(q, limit) ==
    IF ~db THEN <<>>
    ELSE LET found == IF q # <<>> THEN SelectSeq(product, LAMBDA p : TextFilter(q, p))
                      ELSE product
         IN  ToPublicAll(CursorLimit(found, limit))

SearchProducts(q, limit) ==
    /\ resp' = Ok("search_products", <<q, limit>>, SearchProductsBody(q, limit))
    /\ UNCHANGED <<db, chatsession, message, product, pricehistory, wishlist, cart>>

SortedProductsBody(key, dir, limit) ==
    IF ~db THEN <<>> ELSE ToPublicAll(CursorLimit(SortBy(product, key, dir), limit))

TrendingProducts(limit) ==
    /\ resp' = Ok("trending_products", <<limit>>, SortedProductsBody("rating", -1, limit))
    /\ UNCHANGED <<db, chatsession, message, product, pricehistory, wishlist, cart>>

EssentialsProducts(limit) ==
    /\ resp' = Ok("essentials_products", <<limit>>, SortedProductsBody("price", 1, limit))
    /\ UNCHANGED <<db, chatsession, message, product, pricehistory, wishlist, cart>>

FavoritesProducts(limit) ==
    /\ resp' = Ok("favorites_products", <<limit>>, SortedProductsBody("created_at", -1, limit))
    /\ UNCHANGED <<db, chatsession, message, product, pricehistory, wishlist, cart>>

\* h["date"].isoformat()
IsoFormat(date) == Dec(date)

\* find_one: the first of the matching records, <<>> when there is none
FindOne(found) == IF found = <<>> THEN <<>> ELSE <<found[1]>>

\* variant: a missing record is answered 404
PriceHistoryNotFound(product_id) ==
    /\ IF ~db
       THEN resp' = Ok("price_history", <<product_id>>, [history |-> <<>>])
       ELSE IF ~IsValidOid(product_id)
       THEN resp' = Fail("price_history", <<product_id>>, 500, "InvalidId")
       ELSE LET oid == ObjectId(product_id)
                rec == FindOne(SelectSeq(pricehistory, LAMBDA r : r.product_id = oid))
            IN  IF rec = <<>>
                THEN resp' = Fail("price_history", <<product_id>>, 404, "Not found")
                ELSE LET h == rec[1].history
                         hist == [i \in 1..Len(h) |->
                                    [date |-> IsoFormat(h[i].date), price |-> h[i].price]]
                     IN  resp' = Ok("price_history", <<product_id>>, [history |-> hist])
    /\ UNCHANGED <<db, chatsession, message, product, pricehistory, wishlist, cart>>

\* variant: the ObjectId is built before the database check
PriceHistoryParseFirst(product_id) ==
    /\ IF ~IsValidOid(product_id)
       THEN resp' = Fail("price_history", <<product_id>>, 500, "InvalidId")
       ELSE IF ~db
       THEN resp' = Ok("price_history", <<product_id>>, [history |-> <<>>])
       ELSE LET oid == ObjectId(product_id)
                rec == FindOne(SelectSeq(pricehistory, LAMBDA r : r.product_id = oid))
            IN  IF rec = <<>>
                THEN resp' = Ok("price_history", <<product_id>>, [history |-> <<>>])
                ELSE LET h == rec[1].history
                         hist == [i \in 1..Len(h) |->
                                    [date |-> IsoFormat(h[i].date), price |-> h[i].price]]
                     IN  resp' = Ok("price_history", <<product_id>>, [history |-> hist])
    /\ UNCHANGED <<db, chatsession, message, product, pricehistory, wishlist, cart>>

PriceHistory(product_id) ==
    /\ IF ~db
       THEN resp' = Ok("price_history", <<product_id>>, [history |-> <<>>])
       ELSE IF ~IsValidOid(product_id)
       THEN resp' = Fail("price_history", <<product_id>>, 500, "InvalidId")
       ELSE LET oid == ObjectId(product_id)
                rec == FindOne(SelectSeq(pricehistory, LAMBDA r : r.product_id = oid))
            IN  IF rec = <<>>
                THEN resp' = Ok("price_history", <<product_id>>, [history |-> <<>>])
                ELSE LET h == rec[1].history
                         hist == [i \in 1..Len(h) |->
                                    [date |-> IsoFormat(h[i].date), price |-> h[i].price]]
                     IN  resp' = Ok("price_history", <<product_id>>, [history |-> hist])
    /\ UNCHANGED <<db, chatsession, message, product, pricehistory, wishlist, cart>>

(***************************************************************************)
(* Wishlist & Cart                                                         *)
(***************************************************************************)
AddWishlist(product_id, user_email, now) ==
    /\ Len(wishlist) < MaxWishlist
    /\ IF ~db
       THEN /\ resp' = DbNotConfigured("add_wishlist", <<product_id>>)
            /\ UNCHANGED wishlist
       ELSE IF ~IsValidOid(product_id)
       THEN /\ resp' = Fail("add_wishlist", <<product_id>>, 500, "InvalidId")
            /\ UNCHANGED wishlist
       ELSE /\ wishlist' = Append(wishlist, [product_id |-> ObjectId(product_id),
                                             user_email |-> user_email, created_at |-> now])
            /\ resp' = Ok("add_wishlist", <<product_id>>, <<"added">>)
    /\ UNCHANGED <<db, chatsession, message, product, pricehistory, cart>>

\* variant: delete_one instead of delete_many
RemoveWishlistOne(product_id) ==
    /\ IF ~db
       THEN /\ resp' = DbNotConfigured("remove_wishlist", <<product_id>>)
            /\ UNCHANGED wishlist
       ELSE IF ~IsValidOid(product_id)
       THEN /\ resp' = Fail("remove_wishlist", <<product_id>>, 500, "InvalidId")
            /\ UNCHANGED wishlist
       ELSE LET oid == ObjectId(product_id)
                hits == {k \in 1..Len(wishlist) : wishlist[k].product_id = oid}
                first == CHOOSE k \in hits : \A l \in hits : k <= l
            IN  /\ wishlist' = IF hits = {} THEN wishlist
                                ELSE SubSeq(wishlist, 1, first - 1)
                                     \o SubSeq(wishlist, first + 1, Len(wishlist))
                /\ resp' = Ok("remove_wishlist", <<product_id>>, <<"removed">>)
    /\ UNCHANGED <<db, chatsession, message, product, pricehistory, cart>>

RemoveWishlist(product_id) ==
    /\ IF ~db
       THEN /\ resp' = DbNotConfigured("remove_wishlist", <<product_id>>)
            /\ UNCHANGED wishlist
       ELSE IF ~IsValidOid(product_id)
       THEN /\ resp' = Fail("remove_wishlist", <<product_id>>, 500, "InvalidId")
            /\ UNCHANGED wishlist
       ELSE LET oid == ObjectId(product_id)
            IN  /\ wishlist' = SelectSeq(wishlist, LAMBDA w : w.product_id # oid)
                /\ resp' = Ok("remove_wishlist", <<product_id>>, <<"removed">>)
    /\ UNCHANGED <<db, chatsession, message, product, pricehistory, cart>>

AddCart(product_id, quantity, user_email, now) ==
    /\ Len(cart) < MaxCart
    /\ IF ~db
       THEN /\ resp' = DbNotConfigured("add_cart", <<product_id>>)
            /\ UNCHANGED cart
       ELSE IF ~IsValidOid(product_id)
       THEN /\ resp' = Fail("add_cart", <<product_id>>, 500, "InvalidId")
            /\ UNCHANGED cart
       ELSE /\ cart' = Append(cart, [product_id |-> ObjectId(product_id), quantity |-> quantity,
                                     user_email |-> user_email, created_at |-> now])
            /\ resp' = Ok("add_cart", <<product_id>>, <<"added">>)
    /\ UNCHANGED <<db, chatsession, message, product, pricehistory, wishlist>>

(***************************************************************************)
(* AI-like Chat Assist                                                     *)
(***************************************************************************)
\* the keyword search of chat: find({"$or": ...}).limit(8)
ChatSearch(query) == CursorLimit(SelectSeq(product, LAMBDA p : TextFilter(query, p)), ChatSearchLimit)

\* variant: the fallback sorts by rating ascending
ChatFallbackLowest == CursorLimit(SortBy(product, "rating", 1), ChatFallbackLimit)

\* find().sort("rating", -1).limit(5)
ChatFallback == CursorLimit(SortBy(product, "rating", -1), ChatFallbackLimit)

\* items after "if not items: items = ..."
ChatCandidates(query) ==
    LET items == ChatSearch(query) IN IF items = <<>> THEN ChatFallback ELSE items

\* [p for p in items if p.get("price", 0) <= budget]; prices are in cents
UnderBudget(items, budget) == SelectSeq(items, LAMBDA p : p.price <= budget * 100)

\* variant: the budget filter is left out
ChatFilteredUnfiltered(items, budget) == items

\* items after "if budget: ... items = under or items"
ChatFiltered(items, budget) ==
    IF BudgetTruthy(budget)
    THEN LET under == UnderBudget(items, budget) IN IF under # <<>> THEN under ELSE items
    ELSE items

BudgetReason(budget) ==
    [text |-> "Fits your budget around $", amount |-> Dec(budget), cats |-> {}]

PopularReason(recs) ==
    [text |-> "Popular picks in ... with strong ratings", amount |-> <<>>,
     cats |-> {recs[i].category : i \in 1..Len(recs)}]

ChatReasons(budget, recs) ==
    (IF BudgetTruthy(budget) THEN <<BudgetReason(budget)>> ELSE <<>>)
    \o (IF recs # <<>> THEN <<PopularReason(recs)>> ELSE <<>>)

AssistantText == "Here are a few options I think you'll like."

\* the locals are bound by \E over singleton sets, so that each is evaluated once
Chat(session_id, query, now1, now2) ==
    /\ Len(message) + 2 <= MaxMessages
    /\ IF ~db
       THEN /\ resp' = DbNotConfigured("chat", <<session_id, query>>)
            /\ UNCHANGED message
       ELSE \E budget \in {ParseBudget(query)}, items \in {ChatCandidates(query)} :
            \E filtered \in {ChatFiltered(items, budget)} :
            \E recs \in {Slice(filtered, ChatRecLimit)} :
            \E reasons \in {ChatReasons(budget, recs)} :
            LET userMsg == [_id |-> MessageOid(Len(message) + 1), session_id |-> session_id,
                            role |-> "user", content |-> query, created_at |-> now1]
                asstMsg == [_id |-> MessageOid(Len(message) + 2), session_id |-> session_id,
                            role |-> "assistant", content |-> AssistantText,
                            meta |-> [recommendations |->
                                          [i \in 1..Len(recs) |-> OidStr(recs[i]._id)],
                                      reasons |-> reasons],
                            created_at |-> now2]
            IN  /\ message' = message \o <<userMsg, asstMsg>>
                /\ resp' = [Ok("chat", <<session_id, query>>,
                               [message |-> AssistantText, reasons |-> reasons,
                                products |-> ToPublicAll(recs),
                                compare_on |-> <<"price", "rating", "key_features">>])
                            EXCEPT !.locals = [budget |-> budget, items |-> items,
                                               filtered |-> filtered]]
    /\ UNCHANGED <<db, chatsession, product, pricehistory, wishlist, cart>>

(***************************************************************************)
(* Requests the clients send.                                              *)
(***************************************************************************)
Times == {0, 1}
Limits == {0, 2, 20}
Titles == {"t"}
SessionIds == {"s1", "s2"}
Emails == {None, "u"}
\* id strings: product 1, an id without product in either case, a non-hex digit, a short string
IdStrings == {<<"1", "1">>, <<"f", "a">>, <<"F", "A">>, <<"g", "1">>, <<"1">>}
\* a budget between the seeded prices, and a keyword that matches nothing
TurnQueries == {<<"$", "1", "0", "0">>, <<"z">>}
\* "h" matches the products of category H (none, some or all of them, as seeded), "z"
\* matches none, and neither does a query that states a budget
KeywordQueries == {<<"h">>, <<"z">>, <<"$", "5", "0">>}
\* budgets below the seeded prices, equal to the lower one and above both, the last after
\* a keyword, and a budget of zero
BudgetQueries ==
    {<<"$", "1", "0">>, <<"$", "5", "0">>, <<"h", "$", "9", "9", "9">>, <<"$", "0", "0">>}
QueryChars == {"$", ",", "0", "1", "h"}
AllQueries == UNION {[1..n -> QueryChars] : n \in 0..MaxQueryLen}

(***************************************************************************)
(* The service: module import runs seed_products, then requests arrive.    *)
(***************************************************************************)
\* one outcome of the random draws of seed_products
FixedChoice(i) ==
    IF i = 1 THEN [cat |-> "H", price |-> 5000, rating |-> 49]
    ELSE IF i % 3 = 0 THEN [cat |-> "L", price |-> 5000, rating |-> 40]
    ELSE [cat |-> "L", price |-> 50000, rating |-> 49]

FixedDraws == [i \in 1..NumSeed |-> FixedChoice(i)]

InitStore(available, draws) ==
    /\ db = available
    /\ chatsession = <<>>
    /\ message = <<>>
    /\ wishlist = <<>>
    /\ cart = <<>>
    /\ product = (IF available THEN SeedProducts(draws) ELSE <<>>)
    /\ pricehistory = (IF available THEN SeedPriceHistory(SeedProducts(draws)) ELSE <<>>)
    /\ resp = Ok("startup", <<>>, <<>>)

(***************************************************************************)
(* Spec: every handler of the API, with or without a database.             *)
(***************************************************************************)
Init == \E available \in BOOLEAN : InitStore(available, FixedDraws)

Next ==
    \/ Root
    \/ TestDatabase
    \/ CreateSession("t", 0)
    \/ \E limit \in {2} : ListSessions(limit)
    \/ \E limit \in {2} : RecentSessions(limit)
    \/ GetMessages("s1")
    \/ \E post \in {<<"user", <<>>>>, <<"assistant", <<[k |-> 1]>>>>, <<"system", <<>>>>} :
          PostMessage("s1", post[1], <<"h", "i">>, post[2], 0)
    \/ \E q \in {<<"h">>} : SearchProducts(q, 2)
    \/ TrendingProducts(2)
    \/ EssentialsProducts(2)
    \/ FavoritesProducts(2)
    \/ \E id \in {<<"1", "1">>, <<"g", "1">>} : PriceHistory(id)
    \/ \E id \in {<<"1", "1">>, <<"g", "1">>} : AddWishlist(id, None, 0)
    \/ \E id \in {<<"1", "1">>, <<"g", "1">>} : RemoveWishlist(id)
    \/ \E id \in {<<"1", "1">>, <<"g", "1">>} : AddCart(id, 1, None, 0)
    \/ \E q \in {<<"h">>} : Chat("s1", q, 0, 0)

Spec == Init /\ [][Next]_vars

(***************************************************************************)
(* SpecMessages: sessions, messages and chat turns.                        *)
(***************************************************************************)
InitMessages == InitStore(TRUE, FixedDraws)

NextMessages ==
    \/ \E title \in Titles, now \in Times : CreateSession(title, now)
    \/ \E sid \in SessionIds : GetMessages(sid)
    \/ \E sid \in SessionIds, role \in {"user", "assistant"}, now \in Times :
          PostMessage(sid, role, <<"h", "i">>, <<>>, now)
    \/ \E sid \in SessionIds, q \in TurnQueries, now1 \in Times, now2 \in Times :
          Chat(sid, q, now1, now2)

SpecMessages == InitMessages /\ [][NextMessages]_vars

(***************************************************************************)
(* SpecShop: wishlist, cart and price history.                             *)
(***************************************************************************)
InitShop == InitStore(TRUE, FixedDraws)

NextShop ==
    \/ \E id \in IdStrings : PriceHistory(id)
    \/ \E id \in IdStrings, email \in Emails, now \in Times : AddWishlist(id, email, now)
    \/ \E id \in IdStrings : RemoveWishlist(id)
    \/ \E id \in {<<"1", "1">>, <<"g", "1">>} : AddCart(id, 1, None, 0)

SpecShop == InitShop /\ [][NextShop]_vars

(***************************************************************************)
(* One request against every outcome of the seeding: SpecCatalog a chat    *)
(* turn with a keyword query, SpecBudgetFilter a chat turn that states a   *)
(* budget, SpecSearch a search with the empty query.                       *)
(***************************************************************************)
InitCatalog == \E draws \in [1..NumSeed -> SeedChoices] : InitStore(TRUE, draws)

FirstRequest == resp.op = "startup"

NextCatalog == FirstRequest /\ \E q \in KeywordQueries : Chat("s1", q, 0, 0)

SpecCatalog == InitCatalog /\ [][NextCatalog]_vars

NextBudgetFilter == FirstRequest /\ \E q \in BudgetQueries : Chat("s1", q, 0, 0)

SpecBudgetFilter == InitCatalog /\ [][NextBudgetFilter]_vars

NextSearch == FirstRequest /\ \E limit \in Limits : SearchProducts(<<>>, limit)

SpecSearch == InitCatalog /\ [][NextSearch]_vars

(***************************************************************************)
(* SpecBudget: one chat turn for every query over QueryChars.              *)
(***************************************************************************)
InitBudget == InitStore(TRUE, FixedDraws)

NextBudget == FirstRequest /\ \E q \in AllQueries : Chat("s1", q, 0, 0)

SpecBudget == InitBudget /\ [][NextBudget]_vars

(***************************************************************************)
(* Vocabulary of the properties.                                           *)
(***************************************************************************)
IsPrefix(s, t) == Len(s) <= Len(t) /\ SubSeq(t, 1, Len(s)) = s

FirstN(s, n) == [i \in 1..(IF Len(s) < n THEN Len(s) ELSE n) |-> s[i]]

Ids(docs) == [i \in 1..Len(docs) |-> docs[i].id]

ChatDone == resp.op = "chat" /\ resp.status = 200

\* the budget the query states, in cents; prices are in cents
Cents(dollars) == dollars * 100

Matching(q) == {k \in 1..Len(product) : TextFilter(q, product[k])}

Distinct(docs) == \A i, j \in 1..Len(docs) : i # j => docs[i]._id # docs[j]._id

\* the quantifiers over singleton sets bind values that are evaluated once
C3_FallbackTopRated ==
    ChatDone =>
        \A items \in {resp.locals.items}, matching \in {Matching(resp.args[2])} :
        \A chosen \in {{items[i]._id : i \in 1..Len(items)}} :
            /\ Distinct(items)
            /\ \A i \in 1..Len(items) : \E k \in 1..Len(product) : product[k] = items[i]
            /\ \A j \in 1..Len(resp.body.products) :
                  \E i \in 1..Len(items) : resp.body.products[j].id = OidStr(items[i]._id)
            /\ IF matching = {}
               THEN /\ Len(items) = Min(ChatFallbackLimit, Len(product))
                    /\ \A k \in 1..Len(product) : product[k]._id \notin chosen =>
                          \A i \in 1..Len(items) : product[k].rating <= items[i].rating
               ELSE /\ Len(items) = Min(ChatSearchLimit, Cardinality(matching))
                    /\ \A i \in 1..Len(items) : TextFilter(resp.args[2], items[i])

\* no product matches, more than 5 products exist, a lower rated product that fits the
\* budget is left out, and the budget filter then removes a candidate
C3_Witness ==
    /\ ChatDone
    /\ Matching(resp.args[2]) = {}
    /\ Len(product) > ChatFallbackLimit
    /\ Len(resp.locals.filtered) < Len(resp.locals.items)
    /\ \E k \in 1..Len(product) :
          /\ product[k].price <= Cents(resp.locals.budget)
          /\ \A i \in 1..Len(resp.locals.items) : resp.locals.items[i]._id # product[k]._id

\* more than 8 products match the query
C3_ManyMatches ==
    /\ ChatDone
    /\ Cardinality(Matching(resp.args[2])) > ChatSearchLimit
    /\ Len(resp.locals.items) = ChatSearchLimit

(***************************************************************************)
(* C9: search_products with the empty query returns what the unfiltered    *)
(* cursor over the product collection returns under the same limit, in     *)
(* public form.                                                            *)
(***************************************************************************)
C9_EmptyQueryListsAll ==
    (resp.op = "search_products" /\ resp.args[1] = <<>>) =>
        LET limit == resp.args[2]
            n == IF limit = 0 \/ limit > Len(product) THEN Len(product) ELSE limit
        IN  /\ resp.status = 200
            /\ Len(resp.body) = n
            /\ \A i \in 1..n :
                  /\ resp.body[i].id = OidStr(product[i]._id)
                  /\ \A f \in DOMAIN product[i] \ {"_id"} : resp.body[i][f] = product[i][f]

\* an empty query with a limit below the size of the collection
C9_Witness ==
    /\ resp.op = "search_products"
    /\ resp.args[1] = <<>>
    /\ resp.args[2] > 0
    /\ resp.args[2] < Len(product)
    /\ Len(resp.body) = resp.args[2]

(***************************************************************************)
(* C8: with the commas removed from the query, the budget is the number    *)
(* written by the 2 to 5 digits after the first "$" that is followed by at *)
(* least two digits, and is absent when there is no such "$"; every such   *)
(* match, one of zeros included, counts as an extracted budget: the budget *)
(* reason is given and the budget filter is applied.                       *)
(***************************************************************************)
BudgetStarts(s) ==
    {i \in 1..Len(s) : /\ s[i] = "$"
                       /\ i + BudgetMinDigits <= Len(s)
                       /\ \A j \in 1..BudgetMinDigits : IsDigit(s[i + j])}

DigitsTaken(s, i) ==
    CHOOSE n \in BudgetMinDigits..BudgetMaxDigits :
        /\ i + n <= Len(s)
        /\ \A j \in 1..n : IsDigit(s[i + j])
        /\ (n = BudgetMaxDigits \/ i + n = Len(s) \/ ~IsDigit(s[i + n + 1]))

RECURSIVE NumberAt(_, _, _)
NumberAt(s, i, n) == IF n = 0 THEN 0 ELSE 10 * NumberAt(s, i, n - 1) + DigitVal(s[i + n])

HasBudgetReason == \E r \in 1..Len(resp.body.reasons) : resp.body.reasons[r].cats = {}

C8_BudgetExtracted ==
    ChatDone =>
        LET q == resp.args[2]
            s == SelectSeq(q, LAMBDA c : c # ",")
            starts == BudgetStarts(s)
        IN  IF starts = {}
            THEN resp.locals.budget = NoBudget /\ ~HasBudgetReason
            ELSE LET first == CHOOSE i \in starts : \A k \in starts : i <= k
                     value == NumberAt(s, first, DigitsTaken(s, first))
                 IN  /\ resp.locals.budget = value
                     /\ HasBudgetReason
                     /\ resp.body.reasons[1].amount = Dec(value)

\* the same without the last sentence: the value of the budget alone
C8_BudgetValue ==
    ChatDone =>
        LET q == resp.args[2]
            s == SelectSeq(q, LAMBDA c : c # ",")
            starts == BudgetStarts(s)
        IN  IF starts = {}
            THEN resp.locals.budget = NoBudget
            ELSE LET first == CHOOSE i \in starts : \A k \in starts : i <= k
                 IN  resp.locals.budget = NumberAt(s, first, DigitsTaken(s, first))

(***************************************************************************)
(* C2: get_messages(session_id) returns exactly the stored messages of the *)
(* requested session, each once and in public form, none of another        *)
(* session, in ascending order of created_at.                              *)
(***************************************************************************)
C2_MessagesOfSession ==
    resp.op = "get_messages" =>
        LET sid == resp.args[1]
            body == resp.body
            stored == {k \in 1..Len(message) : message[k].session_id = sid}
        IN  /\ Len(body) = Cardinality(stored)
            /\ \A k \in stored : \E i \in 1..Len(body) :
                  /\ body[i].id = OidStr(message[k]._id)
                  /\ \A f \in DOMAIN message[k] \ {"_id"} : body[i][f] = message[k][f]
            /\ \A i \in 1..Len(body) : body[i].session_id = sid
            /\ \A i, j \in 1..Len(body) : i < j => body[i].created_at <= body[j].created_at

\* the session has messages stored in another order than that of created_at, and the
\* other session has messages too
C2_Witness ==
    /\ resp.op = "get_messages"
    /\ Len(resp.body) >= 2
    /\ \E k \in 1..Len(message) : message[k].session_id # resp.args[1]
    /\ \E k, l \in 1..Len(message) :
          /\ k < l
          /\ message[k].session_id = resp.args[1]
          /\ message[l].session_id = resp.args[1]
          /\ message[k].created_at > message[l].created_at

(***************************************************************************)
(* C7: a successful chat(session_id, query) appends exactly two messages   *)
(* of that session: a user message whose content is the query, then an     *)
(* assistant message whose meta.recommendations lists the ids of the       *)
(* returned products in order and whose meta.reasons is the returned       *)
(* reasons; the returned products are the first 3 (or fewer) of the final  *)
(* candidates.                                                             *)
(***************************************************************************)
C7_ChatTurn ==
    [][(resp'.op = "chat" /\ resp'.status = 200) =>
          LET n == Len(message)
              user == message'[n + 1]
              asst == message'[n + 2]
              final == resp'.locals.filtered
          IN  /\ Len(message') = n + 2
              /\ IsPrefix(message, message')
              /\ user.session_id = resp'.args[1]
              /\ user.role = "user"
              /\ user.content = resp'.args[2]
              /\ asst.session_id = resp'.args[1]
              /\ asst.role = "assistant"
              /\ asst.meta.recommendations = Ids(resp'.body.products)
              /\ asst.meta.reasons = resp'.body.reasons
              /\ Ids(resp'.body.products)
                    = FirstN([i \in 1..Len(final) |-> OidStr(final[i]._id)], ChatRecLimit)]_vars

\* a chat turn after an earlier message, whose final candidates number more than 3
C7_Witness ==
    /\ ChatDone
    /\ Len(message) > 2
    /\ message[Len(message)].role = "assistant"
    /\ Len(message[Len(message)].meta.recommendations) = ChatRecLimit
    /\ Len(resp.locals.filtered) > ChatRecLimit

\* a chat turn whose final candidates number fewer than 3
C7_FewerThanThree ==
    /\ ChatDone
    /\ Len(resp.locals.filtered) < ChatRecLimit
    /\ Len(resp.body.products) = Len(resp.locals.filtered)

(***************************************************************************)
(* C4: after a remove_wishlist(p) that completes, no wishlist record has   *)
(* product id p, however many were added before and with whatever          *)
(* user_email, and the records of other product ids are as they were.      *)
(***************************************************************************)
\* the string form that the ObjectId of a well-formed id string has
Canonical(p) == [i \in 1..Len(p) |-> IF IsHex(p[i]) THEN HexLower[HexVal(p[i]) + 1] ELSE p[i]]

C4_RemoveWishlistRemovesAll ==
    [][(resp'.op = "remove_wishlist" /\ resp'.status = 200) =>
          LET p == Canonical(resp'.args[1])
          IN  /\ \A k \in 1..Len(wishlist') : OidStr(wishlist'[k].product_id) # p
              /\ wishlist' = SelectSeq(wishlist, LAMBDA w : OidStr(w.product_id) # p)]_vars

\* a completed removal that left the record of another product id in the wishlist
C4_Witness ==
    /\ resp.op = "remove_wishlist"
    /\ resp.status = 200
    /\ wishlist # <<>>
    /\ \A k \in 1..Len(wishlist) : OidStr(wishlist[k].product_id) # Canonical(resp.args[1])

(***************************************************************************)
(* C6: price_history(product_id), for a product id without price-history   *)
(* record, returns {history: []} and no error.  C6_AnyIdString states it   *)
(* for every id string; C6_WellFormedId for the strings that are           *)
(* well-formed ObjectIds.                                                  *)
(***************************************************************************)
NoHistoryRecord(p) ==
    \A k \in 1..Len(pricehistory) : OidStr(pricehistory[k].product_id) # Canonical(p)

WellFormedId(p) == Len(p) = OidHexLen /\ \A i \in 1..Len(p) : p[i] \in HexSet

EmptyHistory == resp.status = 200 /\ resp.error = "none" /\ resp.body = [history |-> <<>>]

C6_AnyIdString ==
    (resp.op = "price_history" /\ NoHistoryRecord(resp.args[1])) => EmptyHistory

C6_WellFormedId ==
    (resp.op = "price_history" /\ WellFormedId(resp.args[1]) /\ NoHistoryRecord(resp.args[1]))
        => EmptyHistory

\* a lookup of a well-formed id that no product has
C6_Witness ==
    /\ resp.op = "price_history"
    /\ WellFormedId(resp.args[1])
    /\ NoHistoryRecord(resp.args[1])
    /\ pricehistory # <<>>
    /\ resp.status = 200

(***************************************************************************)
(* C5: without a database, every call of a mutating handler                *)
(* (create_session, post_message, add_wishlist, remove_wishlist, add_cart, *)
(* chat) fails with status 500 and writes nothing, and every read handler  *)
(* answers with an empty result and no error.                              *)
(***************************************************************************)
MutatingHandlers ==
    {"create_session", "post_message", "add_wishlist", "remove_wishlist", "add_cart", "chat"}

ListHandlers ==
    {"list_sessions", "recent_sessions", "get_messages", "search_products",
     "trending_products", "essentials_products", "favorites_products"}

C5_NoDatabase ==
    ~db =>
        /\ chatsession = <<>> /\ message = <<>> /\ wishlist = <<>> /\ cart = <<>>
        /\ product = <<>> /\ pricehistory = <<>>
        /\ (resp.op \in MutatingHandlers /\ resp.error # "validation") => resp.status = 500
        /\ resp.op \in ListHandlers => (resp.status = 200 /\ resp.body = <<>>)
        /\ resp.op = "price_history" => EmptyHistory

\* without a database, a price-history lookup of a malformed id has been answered
C5_Witness ==
    /\ ~db
    /\ resp.op = "price_history"
    /\ ~WellFormedId(resp.args[1])

\* without a database, a chat call has failed
C5_ChatFailed == ~db /\ resp.op = "chat" /\ resp.status = 500

(***************************************************************************)
(* C10: no call removes or changes a stored session or message, every      *)
(* stored message has role user or assistant, and the only call that       *)
(* removes a record is remove_wishlist, which changes the wishlist only.   *)
(***************************************************************************)
C10_AppendOnly ==
    /\ [](\A k \in 1..Len(message) : message[k].role \in {"user", "assistant"})
    /\ [][/\ IsPrefix(chatsession, chatsession')
          /\ IsPrefix(message, message')
          /\ IsPrefix(cart, cart')
          /\ IsPrefix(product, product')
          /\ IsPrefix(pricehistory, pricehistory')
          /\ \/ IsPrefix(wishlist, wishlist')
             \/ /\ resp'.op = "remove_wishlist"
                /\ UNCHANGED <<chatsession, message, cart, product, pricehistory>>]_vars

\* a removal has completed while sessions, messages and cart items are stored
C10_Witness ==
    /\ resp.op = "remove_wishlist"
    /\ resp.status = 200
    /\ chatsession # <<>>
    /\ Len(message) >= 2
    /\ cart # <<>>

====
